---- MODULE Spec2Model ----
(***************************************************************************)
(* Model of the COSMETICS formula service:                                 *)
(*   src/COSMETICS/create_formula.py  JSON recovery, lazy agent pair,      *)
(*                                    generate_formula                     *)
(*   src/COSMETICS/main.py            format_formula_for_display and the   *)
(*                                    HTTP generate handler                *)
(*                                                                         *)
(* Texts are sequences of one-character strings.  Python values are        *)
(* encoded as tagged tuples:                                               *)
(*   None / null   <<"null">>                                              *)
(*   number        <<"num", lexeme>>                                       *)
(*   bool          <<"bool", b>>                                           *)
(*   str           <<"str", chars>>                                        *)
(*   list          <<"arr", <<v1, ..., vn>> >>                             *)
(*   dict          <<"obj", << <<k1, v1>>, ..., <<kn, vn>> >> >>           *)
(*                 (insertion order, keys unique, keys are texts)          *)
(* An Optional[...] slot that is not a JSON value is <<>> for None and     *)
(* <<x>> for x.                                                            *)
(***************************************************************************)
EXTENDS Integers, Sequences, FiniteSets, TLC

VARIABLES
    _agent,        \* module global _agent: 0 is None, n > 0 the n-th AssistantAgent built
    _user_proxy,   \* module global _user_proxy: 0 is None, n > 0 the n-th UserProxyAgent built
    agentCtor,     \* number of AssistantAgent(...) constructions so far
    proxyCtor,     \* number of UserProxyAgent(...) constructions so far
    pc,            \* per call: position in generate / generate_formula / _init_agents
    req,           \* per call: GenerateRequest.message
    usedProxy,     \* per call: the value loaded from _user_proxy at line 173
    usedAgent,     \* per call: the value loaded from _agent at line 173
    didInit,       \* per call: _init_agents was entered
    didChat,       \* per call: initiate_chat was invoked
    chat,          \* per call: what the exchange did (Optional)
    resp,          \* per call: the GenerateResponse returned (Optional)
    raw,           \* recovery check: the reply text handed to the recovery
    result,        \* recovery check: the dict built from it (Optional)
    formula_data,  \* formatter check: the argument of format_formula_for_display
    formatted      \* formatter check: its return value (Optional)

vars == <<_agent, _user_proxy, agentCtor, proxyCtor, pc, req, usedProxy, usedAgent,
          didInit, didChat, chat, resp, raw, result, formula_data, formatted>>

callVars == <<_agent, _user_proxy, agentCtor, proxyCtor, pc, req, usedProxy, usedAgent,
              didInit, didChat, chat, resp>>
recoverVars == <<raw, result>>
formatVars == <<formula_data, formatted>>

None == <<"null">>
Some(x) == <<x>>
Nothing == <<>>

-----------------------------------------------------------------------------
(* Python str operations *)

Whitespace == {" ", "\n", "\r", "\t"}

UpperLetters == <<"A","B","C","D","E","F","G","H","I","J","K","L","M",
                  "N","O","P","Q","R","S","T","U","V","W","X","Y","Z">>
LowerLetters == <<"a","b","c","d","e","f","g","h","i","j","k","l","m",
                  "n","o","p","q","r","s","t","u","v","w","x","y","z">>
Digits == <<"0","1","2","3","4","5","6","7","8","9">>

Range(f) == {f[i] : i \in DOMAIN f}

LowerOf ==
    [c \in Range(UpperLetters) |->
        LowerLetters[CHOOSE i \in DOMAIN UpperLetters : UpperLetters[i] = c]]
LowerChar(c) == IF c \in DOMAIN LowerOf THEN LowerOf[c] ELSE c

\* str.lower()
Lower(s) == [i \in 1..Len(s) |-> LowerChar(s[i])]

\* str.strip()
RECURSIVE LStrip(_)
LStrip(s) == IF s # <<>> /\ Head(s) \in Whitespace THEN LStrip(Tail(s)) ELSE s
RECURSIVE RStrip(_)
RStrip(s) ==
    IF s # <<>> /\ s[Len(s)] \in Whitespace THEN RStrip(SubSeq(s, 1, Len(s) - 1)) ELSE s
Strip(s) == RStrip(LStrip(s))

\* str.find(c) / str.rfind(c) for a one-character needle: 0-based index or -1
Find(s, c) ==
    IF \E i \in 1..Len(s) : s[i] = c
    THEN (CHOOSE i \in 1..Len(s) : s[i] = c /\ \A j \in 1..(i - 1) : s[j] # c) - 1
    ELSE -1
RFind(s, c) ==
    IF \E i \in 1..Len(s) : s[i] = c
    THEN (CHOOSE i \in 1..Len(s) : s[i] = c /\ \A j \in (i + 1)..Len(s) : s[j] # c) - 1
    ELSE -1

\* s[a:b] for 0 <= a <= b
Slice(s, a, b) == SubSeq(s, a + 1, IF b > Len(s) THEN Len(s) ELSE b)

\* needle in s for texts
Contains(s, needle) ==
    \E i \in 0..(Len(s) - Len(needle)) : SubSeq(s, i + 1, i + Len(needle)) = needle

\* the regular expression class \w (ASCII part)
WordChars == Range(UpperLetters) \cup Range(LowerLetters) \cup Range(Digits) \cup {"_"}
IsWordChar(c) == c \in WordChars

TERMINATE == <<"t","e","r","m","i","n","a","t","e">>

\* r'\bTERMINATE\b' with re.IGNORECASE matches at 1-based position i
TerminateMatchAt(s, i) ==
    /\ i + Len(TERMINATE) - 1 <= Len(s)
    /\ Lower(SubSeq(s, i, i + Len(TERMINATE) - 1)) = TERMINATE
    /\ (i = 1 \/ ~IsWordChar(s[i - 1]))
    /\ (i + Len(TERMINATE) > Len(s) \/ ~IsWordChar(s[i + Len(TERMINATE)]))

\* re.sub(r'\bTERMINATE\b', '', s, flags=re.IGNORECASE): left-to-right scan
RECURSIVE SubTerminate(_, _)
SubTerminate(s, i) ==
    IF i > Len(s) THEN <<>>
    ELSE IF TerminateMatchAt(s, i) THEN SubTerminate(s, i + Len(TERMINATE))
    ELSE <<s[i]>> \o SubTerminate(s, i + 1)

\* re.sub(r"'", '"', s)
SubQuotes(s) == [i \in 1..Len(s) |-> IF s[i] = "'" THEN "\"" ELSE s[i]]

-----------------------------------------------------------------------------
(* json.loads: the decoder of the standard library, positions 1-based *)

IsDigit(c) == c \in Range(Digits)
At(s, i) == IF i >= 1 /\ i <= Len(s) THEN s[i] ELSE ""

\* json.decoder.WHITESPACE.match(s, i).end()
RECURSIVE SkipWs(_, _)
SkipWs(s, i) == IF At(s, i) \in Whitespace THEN SkipWs(s, i + 1) ELSE i

RECURSIVE DigitsEnd(_, _)
DigitsEnd(s, i) == IF IsDigit(At(s, i)) THEN DigitsEnd(s, i + 1) ELSE i

JsonFail == [ok |-> FALSE, val |-> None, end |-> 0]
JsonOk(v, e) == [ok |-> TRUE, val |-> v, end |-> e]

\* json.scanner NUMBER_RE: (-?(?:0|[1-9]\d*))(\.\d+)?([eE][-+]?\d+)?
\* The value of a number is its lexeme.
MatchNumber(s, i) ==
    LET j0 == IF At(s, i) = "-" THEN i + 1 ELSE i
        j1 == IF At(s, j0) = "0" THEN j0 + 1 ELSE DigitsEnd(s, j0)
        j2 == IF At(s, j1) = "." /\ IsDigit(At(s, j1 + 1)) THEN DigitsEnd(s, j1 + 1) ELSE j1
        k  == IF At(s, j2 + 1) \in {"+", "-"} THEN j2 + 2 ELSE j2 + 1
        j3 == IF At(s, j2) \in {"e", "E"} /\ IsDigit(At(s, k)) THEN DigitsEnd(s, k) ELSE j2
    IN  IF IsDigit(At(s, j0)) THEN JsonOk(<<"num", SubSeq(s, i, j3 - 1)>>, j3) ELSE JsonFail

\* json.decoder.scanstring(s, i, strict=True), i just after the opening quote
\* (escape sequences are not modelled: no input text holds a backslash)
RECURSIVE StringEnd(_, _)
StringEnd(s, i) ==
    IF i > Len(s) THEN 0
    ELSE IF s[i] = "\"" THEN i
    ELSE IF s[i] \in {"\n", "\r", "\t"} THEN 0
    ELSE StringEnd(s, i + 1)
ScanString(s, i) ==
    LET e == StringEnd(s, i)
    IN  IF e = 0 THEN JsonFail ELSE JsonOk(<<"str", SubSeq(s, i, e - 1)>>, e + 1)

\* dict(pairs): a repeated key keeps its first position and takes the last value
HasKey(pairs, k) == \E i \in DOMAIN pairs : pairs[i][1] = k
KeyIndex(pairs, k) == CHOOSE i \in DOMAIN pairs : pairs[i][1] = k
DictPut(pairs, k, v) ==
    IF HasKey(pairs, k)
    THEN [pairs EXCEPT ![KeyIndex(pairs, k)] = <<k, v>>]
    ELSE Append(pairs, <<k, v>>)
DictGet(pairs, k) == pairs[KeyIndex(pairs, k)][2]
DictKeys(pairs) == {pairs[i][1] : i \in DOMAIN pairs}

RECURSIVE ScanOnce(_, _)
RECURSIVE JSONObjectMembers(_, _, _)
RECURSIVE JSONArrayItems(_, _, _)

\* json.decoder.JSONObject, i just after "{"
JSONObject(s, i) ==
    LET j == IF At(s, i) # "\"" /\ At(s, i) \in Whitespace THEN SkipWs(s, i) ELSE i
    IN  IF At(s, j) = "}" THEN JsonOk(<<"obj", <<>>>>, j + 1)
        ELSE IF At(s, j) # "\"" THEN JsonFail
        ELSE JSONObjectMembers(s, j + 1, <<>>)

\* the while loop of JSONObject, i just after the opening quote of a key
JSONObjectMembers(s, i, pairs) ==
    LET key   == ScanString(s, i)
        colon == SkipWs(s, key.end)
        value == ScanOnce(s, SkipWs(s, colon + 1))
        after == SkipWs(s, value.end)
        next  == SkipWs(s, after + 1)
    IN  IF ~key.ok \/ At(s, colon) # ":" THEN JsonFail
        ELSE IF ~value.ok THEN JsonFail
        ELSE IF At(s, after) = "}"
             THEN JsonOk(<<"obj", DictPut(pairs, key.val[2], value.val)>>, after + 1)
        ELSE IF At(s, after) # "," \/ At(s, next) # "\"" THEN JsonFail
        ELSE JSONObjectMembers(s, next + 1, DictPut(pairs, key.val[2], value.val))

\* json.decoder.JSONArray, i just after "["
JSONArray(s, i) ==
    LET j == SkipWs(s, i)
    IN  IF At(s, j) = "]" THEN JsonOk(<<"arr", <<>>>>, j + 1)
        ELSE JSONArrayItems(s, j, <<>>)

\* the while loop of JSONArray, i at the start of an element
JSONArrayItems(s, i, items) ==
    LET value == ScanOnce(s, i)
        after == SkipWs(s, value.end)
    IN  IF ~value.ok THEN JsonFail
        ELSE IF At(s, after) = "]" THEN JsonOk(<<"arr", Append(items, value.val)>>, after + 1)
        ELSE IF At(s, after) # "," THEN JsonFail
        ELSE JSONArrayItems(s, SkipWs(s, after + 1), Append(items, value.val))

\* json.scanner.py_make_scanner._scan_once (NaN and Infinity are not modelled)
ScanOnce(s, i) ==
    LET c == At(s, i)
    IN  IF c = "\"" THEN ScanString(s, i + 1)
        ELSE IF c = "{" THEN JSONObject(s, i + 1)
        ELSE IF c = "[" THEN JSONArray(s, i + 1)
        ELSE IF c = "n" /\ Slice(s, i - 1, i + 3) = <<"n","u","l","l">> THEN JsonOk(None, i + 4)
        ELSE IF c = "t" /\ Slice(s, i - 1, i + 3) = <<"t","r","u","e">>
             THEN JsonOk(<<"bool", TRUE>>, i + 4)
        ELSE IF c = "f" /\ Slice(s, i - 1, i + 4) = <<"f","a","l","s","e">>
             THEN JsonOk(<<"bool", FALSE>>, i + 5)
        ELSE MatchNumber(s, i)

\* json.loads(s): [ok |-> FALSE, ...] stands for json.JSONDecodeError
json_loads(s) ==
    LET v == ScanOnce(s, SkipWs(s, 1))
    IN  IF v.ok /\ SkipWs(s, v.end) = Len(s) + 1 THEN JsonOk(v.val, v.end) ELSE JsonFail

\* Python == on decoded values: dicts compare without regard to key order
RECURSIVE PyEq(_, _)
PyEq(v, w) ==
    IF v[1] # w[1] THEN FALSE
    ELSE IF v[1] = "obj"
         THEN /\ DictKeys(v[2]) = DictKeys(w[2])
              /\ \A k \in DictKeys(v[2]) : PyEq(DictGet(v[2], k), DictGet(w[2], k))
    ELSE IF v[1] = "arr"
         THEN /\ Len(v[2]) = Len(w[2])
              /\ \A i \in DOMAIN v[2] : PyEq(v[2][i], w[2][i])
    ELSE v = w

\* bool(v) of a decoded value
Truthy(v) ==
    IF v[1] = "null" THEN FALSE
    ELSE IF v[1] = "bool" THEN v[2]
    ELSE IF v[1] = "num"
         THEN \E i \in DOMAIN v[2] :
                 /\ v[2][i] \in Range(Digits) \ {"0"}
                 /\ \A j \in 1..i : v[2][j] \notin {"e", "E"}
    ELSE v[2] # <<>>

-----------------------------------------------------------------------------
(* create_formula.py: recovery of JSON from the reply text *)

\* _extract_json_like with the two searches swapped: the bracket span first
_extract_json_like_BracketsFirst(text) ==
    LET cleaned     == Strip(SubTerminate(text, 1))
        first_curly == Find(cleaned, "{")
        last_curly  == RFind(cleaned, "}")
        first_brack == Find(cleaned, "[")
        last_brack  == RFind(cleaned, "]")
    IN  IF first_brack # -1 /\ last_brack # -1 /\ last_brack > first_brack
        THEN Slice(cleaned, first_brack, last_brack + 1)
        ELSE IF first_curly # -1 /\ last_curly # -1 /\ last_curly > first_curly
        THEN Slice(cleaned, first_curly, last_curly + 1)
        ELSE cleaned

\* _extract_json_like(text); text is always a str here, so line 56 never raises
_extract_json_like(text) ==
    LET cleaned     == Strip(SubTerminate(text, 1))
        first_curly == Find(cleaned, "{")
        last_curly  == RFind(cleaned, "}")
        first_brack == Find(cleaned, "[")
        last_brack  == RFind(cleaned, "]")
    IN  IF first_curly # -1 /\ last_curly # -1 /\ last_curly > first_curly
        THEN Slice(cleaned, first_curly, last_curly + 1)
        ELSE IF first_brack # -1 /\ last_brack # -1 /\ last_brack > first_brack
        THEN Slice(cleaned, first_brack, last_brack + 1)
        ELSE cleaned

ParseFailed ==
    "Failed to parse JSON-like string. Tried raw, extracted JSON-like parts, and single-quote replacement."

Return(v) == [raised |-> FALSE, value |-> v, error |-> ""]
Raise(msg) == [raised |-> TRUE, value |-> None, error |-> msg]

\* _parse_json_string(json_like_str)
_parse_json_string(json_like_str) ==
    LET candidate == Strip(json_like_str)
        extracted == _extract_json_like(candidate)
        alt       == SubQuotes(extracted)
    IN  IF json_loads(candidate).ok THEN Return(json_loads(candidate).val)
        ELSE IF json_loads(extracted).ok THEN Return(json_loads(extracted).val)
        ELSE IF json_loads(alt).ok THEN Return(json_loads(alt).val)
        ELSE Raise(ParseFailed)

\* ParseReply storing the extracted text, not the reply, as raw
ParseReply_RawIsExtract(reply) ==
    LET json_like == _extract_json_like(reply)
        parsed    == _parse_json_string(json_like)
    IN  IF ~parsed.raised
        THEN [parsed |-> TRUE, data |-> parsed.value, raw |-> json_like, error |-> Nothing]
        ELSE [parsed |-> FALSE, data |-> None, raw |-> json_like, error |-> Some(parsed.error)]

\* generate_formula, lines 196-212: the dict built from the reply text
\* (save_file is False in every call the service makes, line 112 of main.py)
ParseReply(reply) ==
    LET json_like == _extract_json_like(reply)
        parsed    == _parse_json_string(json_like)
    IN  IF ~parsed.raised
        THEN [parsed |-> TRUE, data |-> parsed.value, raw |-> reply, error |-> Nothing]
        ELSE [parsed |-> FALSE, data |-> None, raw |-> reply, error |-> Some(parsed.error)]

-----------------------------------------------------------------------------
(* main.py: format_formula_for_display *)

\* common_fields, lines 58-66: <<section name, aliases>> in dict order
common_fields ==
 <<   <<<<"P","r","o","d","u","c","t"," ","N","a","m","e">>,
     <<<<"p","r","o","d","u","c","t","_","n","a","m","e">>,
       <<"n","a","m","e">>,
       <<"t","i","t","l","e">>,
       <<"p","r","o","d","u","c","t","N","a","m","e">>,
       <<"p","r","o","d","u","c","t"," ","n","a","m","e">>,
       <<"p","r","o","d","u","c","t","_","t","i","t","l","e">>>> >>,
   <<<<"D","e","s","c","r","i","p","t","i","o","n">>,
     <<<<"d","e","s","c","r","i","p","t","i","o","n">>,
       <<"d","e","s","c">>,
       <<"s","u","m","m","a","r","y">>,
       <<"o","v","e","r","v","i","e","w">>,
       <<"p","r","o","d","u","c","t","_","d","e","s","c","r","i","p","t","i","o","n">>,
       <<"p","r","o","d","u","c","t","_","d","e","s","c">>>> >>,
   <<<<"I","n","g","r","e","d","i","e","n","t","s">>,
     <<<<"i","n","g","r","e","d","i","e","n","t","s">>,
       <<"i","n","g","r","e","d","i","e","n","t","_","l","i","s","t">>,
       <<"c","o","m","p","o","n","e","n","t","s">>,
       <<"f","o","r","m","u","l","a">>,
       <<"i","n","g","r","e","d","i","e","n","t">>,
       <<"i","n","g","r","e","d","i","e","n","t","_","l","i","s","t">>,
       <<"f","o","r","m","u","l","a","t","i","o","n">>>> >>,
   <<<<"I","n","s","t","r","u","c","t","i","o","n","s">>,
     <<<<"i","n","s","t","r","u","c","t","i","o","n","s">>,
       <<"u","s","a","g","e">>,
       <<"h","o","w","_","t","o","_","u","s","e">>,
       <<"d","i","r","e","c","t","i","o","n","s">>,
       <<"a","p","p","l","i","c","a","t","i","o","n">>,
       <<"i","n","s","t","r","u","c","t","i","o","n","s","_","f","o","r","_","u","s","e">>,
       <<"h","o","w"," ","t","o"," ","u","s","e">>,
       <<"u","s","a","g","e","_","i","n","s","t","r","u","c","t","i","o","n","s">>>> >>,
   <<<<"P","a","c","k","a","g","i","n","g">>,
     <<<<"p","a","c","k","a","g","i","n","g">>,
       <<"c","o","n","t","a","i","n","e","r">>,
       <<"b","o","t","t","l","e">>,
       <<"t","u","b","e">>,
       <<"p","a","c","k","a","g","i","n","g","_","s","u","g","g","e","s","t","i","o","n","s">>,
       <<"c","o","n","t","a","i","n","e","r","_","t","y","p","e">>>> >>,
   <<<<"S","a","f","e","t","y">>,
     <<<<"s","a","f","e","t","y">>,
       <<"w","a","r","n","i","n","g","s">>,
       <<"p","r","e","c","a","u","t","i","o","n","s">>,
       <<"r","e","g","u","l","a","t","o","r","y">>,
       <<"s","a","f","e","t","y","_","i","n","f","o","r","m","a","t","i","o","n">>,
       <<"s","a","f","e","t","y","_","a","n","d","_","r","e","g","u","l","a","t","o","r","y">>,
       <<"s","a","f","e","t","y","_","w","a","r","n","i","n","g","s">>,
       <<"r","e","g","u","l","a","t","o","r","y","_","i","n","f","o","r","m","a","t","i","o","n">>>> >>,
   <<<<"N","o","t","e","s">>,
     <<<<"n","o","t","e","s">>,
       <<"a","d","d","i","t","i","o","n","a","l","_","n","o","t","e","s">>,
       <<"t","i","p","s">>,
       <<"r","e","c","o","m","m","e","n","d","a","t","i","o","n","s">>,
       <<"a","d","d","i","t","i","o","n","a","l","_","i","n","f","o","r","m","a","t","i","o","n">>,
       <<"a","d","d","i","t","i","o","n","a","l","_","n","o","t","e","s">>,
       <<"e","x","t","r","a","_","n","o","t","e","s">>,
       <<"a","d","d","i","t","i","o","n","a","l","_","i","n","f","o">>>> >>
 >>
\* expected_sections, line 96
expected_sections ==
 <<<<"P","r","o","d","u","c","t"," ","N","a","m","e">>,
   <<"D","e","s","c","r","i","p","t","i","o","n">>,
   <<"I","n","g","r","e","d","i","e","n","t","s">>,
   <<"I","n","s","t","r","u","c","t","i","o","n","s">>,
   <<"P","a","c","k","a","g","i","n","g">>,
   <<"S","a","f","e","t","y">>,
   <<"N","o","t","e","s">>>>

AdditionalInformation ==
    <<"A","d","d","i","t","i","o","n","a","l"," ","I","n","f","o","r","m","a","t","i","o","n">>
\* {"placeholder": "No information available for this section"}, line 99
Placeholder ==
    <<"obj", << << <<"p","l","a","c","e","h","o","l","d","e","r">>,
                   <<"str", <<"N","o"," ","i","n","f","o","r","m","a","t","i","o","n"," ","a","v","a","i","l","a","b","l","e"," ","f","o","r"," ","t","h","i","s"," ","s","e","c","t","i","o","n">>>> >> >> >>

IsDict(v) == v[1] = "obj"

\* the (section, alias) pairs in the order the two for loops of lines 71-72 visit them
SectionAliases ==
    LET Flat[i \in 0..Len(common_fields)] ==
            IF i = 0 THEN <<>>
            ELSE Flat[i - 1] \o [j \in 1..Len(common_fields[i][2]) |->
                                   <<common_fields[i][1], common_fields[i][2][j]>>]
    IN  Flat[Len(common_fields)]

\* formatted[section_name][key] = value, lines 76-78 and 84-86
PutUnder(fmt, section_name, key, value) ==
    LET inner == IF HasKey(fmt, section_name) THEN DictGet(fmt, section_name)[2] ELSE <<>>
    IN  DictPut(fmt, section_name, <<"obj", DictPut(inner, key, value)>>)

\* next((k for k in formula_data.keys() if k.lower() == key.lower()), None), line 74;
\* 0 stands for None
ExactIndex(data, key) ==
    IF \E i \in DOMAIN data : Lower(data[i][1]) = Lower(key)
    THEN CHOOSE i \in DOMAIN data :
            /\ Lower(data[i][1]) = Lower(key)
            /\ \A j \in 1..(i - 1) : Lower(data[j][1]) # Lower(key)
    ELSE 0

\* the first data_key of the loop of lines 82-88 that passes the test of line 83; 0 if none
PartialIndex(data, key, categorized_keys) ==
    LET Hit(i) == data[i][1] \notin categorized_keys /\ Contains(Lower(data[i][1]), Lower(key))
    IN  IF \E i \in DOMAIN data : Hit(i)
        THEN CHOOSE i \in DOMAIN data : Hit(i) /\ \A j \in 1..(i - 1) : ~Hit(j)
        ELSE 0

\* CategorizeStep without categorized_keys.add(...)
CategorizeStep_NoMark(st, data, section_name, key) ==
    LET e == ExactIndex(data, key)
        exact == e # 0 /\ data[e][1] # <<>> /\ data[e][1] \notin st.categorized_keys
        p == PartialIndex(data, key, st.categorized_keys)
        i == IF exact THEN e ELSE p
    IN  IF i = 0 THEN st
        ELSE [formatted |-> PutUnder(st.formatted, section_name, data[i][1], data[i][2]),
              categorized_keys |-> st.categorized_keys]

\* one iteration of the inner for loop, lines 73-88;
\* st = [formatted |-> dict, categorized_keys |-> set]
CategorizeStep(st, data, section_name, key) ==
    LET e == ExactIndex(data, key)
        \* if actual_key and ...: the empty str is falsy
        exact == e # 0 /\ data[e][1] # <<>> /\ data[e][1] \notin st.categorized_keys
        p == PartialIndex(data, key, st.categorized_keys)
        i == IF exact THEN e ELSE p
    IN  IF i = 0 THEN st
        ELSE [formatted |-> PutUnder(st.formatted, section_name, data[i][1], data[i][2]),
              categorized_keys |-> st.categorized_keys \cup {data[i][1]}]

\* the two nested for loops, lines 69-88, from the n-th (section, alias) pair on
\* (once every key is in categorized_keys no later iteration passes line 75 or 83)
RECURSIVE CategorizeFrom(_, _, _)
CategorizeFrom(st, data, n) ==
    IF n > Len(SectionAliases) \/ DictKeys(data) \subseteq st.categorized_keys THEN st
    ELSE CategorizeFrom(CategorizeStep(st, data, SectionAliases[n][1], SectionAliases[n][2]),
                        data, n + 1)
Categorize(data) == CategorizeFrom([formatted |-> <<>>, categorized_keys |-> {}], data, 1)

\* lines 91-93
AddRemaining(st, data) ==
    LET remaining_fields == SelectSeq(data, LAMBDA kv : kv[1] \notin st.categorized_keys)
    IN  IF remaining_fields # <<>>
        THEN DictPut(st.formatted, AdditionalInformation, <<"obj", remaining_fields>>)
        ELSE st.formatted

\* AddExpected with the loop over expected_sections stopping one short
AddExpected_OneShort(fmt) ==
    LET Run[n \in 0..(Len(expected_sections) - 1)] ==
            IF n = 0 THEN fmt
            ELSE LET prev == Run[n - 1]
                 IN  IF HasKey(prev, expected_sections[n]) THEN prev
                     ELSE DictPut(prev, expected_sections[n], Placeholder)
    IN  Run[Len(expected_sections) - 1]

\* lines 96-99
AddExpected(fmt) ==
    LET Run[n \in 0..Len(expected_sections)] ==
            IF n = 0 THEN fmt
            ELSE LET prev == Run[n - 1]
                 IN  IF HasKey(prev, expected_sections[n]) THEN prev
                     ELSE DictPut(prev, expected_sections[n], Placeholder)
    IN  Run[Len(expected_sections)]

\* format_formula_for_display(formula_data), lines 48-101
format_formula_for_display(data) ==
    IF ~Truthy(data) \/ ~IsDict(data) THEN data
    ELSE LET fmt == AddExpected(AddRemaining(Categorize(data[2]), data[2]))
         IN  IF fmt # <<>> THEN <<"obj", fmt>> ELSE data

-----------------------------------------------------------------------------
(* create_formula.py: generate_formula and the lazily built agent pair;     *)
(* main.py: the HTTP generate handler                                       *)

\* line 166 without .strip()
IsRejected_NoStrip(user_message) == user_message = <<>>

\* line 166: not isinstance(user_message, str) or not user_message.strip()
IsRejected(user_message) == Strip(user_message) = <<>>

\* the message of the ValueError of line 167 (its backquotes left out)
EmptyMessage == "user_message must be a non-empty string."

\* line 116 with or in place of and
AgentsReady_Either(agent, user_proxy) == agent # 0 \/ user_proxy # 0

\* line 116: _agent is not None and _user_proxy is not None
AgentsReady(agent, user_proxy) == agent # 0 /\ user_proxy # 0

\* What initiate_chat can do.  A chat result is an object with the attributes
\* chat_history and content (each Optional), or a dict with the keys chat_history
\* and history (each Optional); a history is a list of turns, a turn the Optional
\* content of that message; str is str(chat_result).
ChatRaises(msg) == [raises |-> TRUE, error |-> msg]
ChatObject(chat_history, content, repr) ==
    [raises |-> FALSE, isdict |-> FALSE, chat_history |-> chat_history,
     history |-> Nothing, content |-> content, str |-> repr]
ChatDict(chat_history, history, repr) ==
    [raises |-> FALSE, isdict |-> TRUE, chat_history |-> chat_history,
     history |-> history, content |-> Nothing, str |-> repr]

\* hist is a non-empty list: isinstance(history, list) and history
NonEmptyList(hist) == hist # Nothing /\ hist[1] # <<>>
\* history[-1].get("content")
LastContent(hist) == hist[1][Len(hist[1])]

\* generate_formula, lines 178-194: the text taken as the reply
ReadReply(chat_result) ==
    LET from_attr ==
            IF ~chat_result.isdict /\ NonEmptyList(chat_result.chat_history)
            THEN LastContent(chat_result.chat_history) ELSE Nothing
        hist ==
            IF NonEmptyList(chat_result.chat_history)
            THEN chat_result.chat_history ELSE chat_result.history
        last_content ==
            IF from_attr = Nothing /\ chat_result.isdict
            THEN (IF NonEmptyList(hist) THEN LastContent(hist) ELSE Nothing)
            ELSE from_attr
        attr_content ==
            IF chat_result.content # Nothing /\ chat_result.content[1] # <<>>
            THEN chat_result.content[1] ELSE chat_result.str
    IN  IF last_content = Nothing \/ last_content[1] = <<>> THEN attr_content
        ELSE last_content[1]

\* the dict of the outer except clause, lines 214-216
ErrorResult(msg) == [parsed |-> FALSE, data |-> None, raw |-> <<>>, error |-> Some(msg)]

NoneTypeError == "'NoneType' object has no attribute 'initiate_chat'"

\* generate_formula, lines 171-216: the try block, given the role loaded from
\* _user_proxy and what the exchange does
RunExchange(user_proxy, outcome) ==
    IF user_proxy = 0 THEN ErrorResult(NoneTypeError)
    ELSE IF outcome.raises THEN ErrorResult(outcome.error)
    ELSE ParseReply(ReadReply(outcome))

\* main.py generate, lines 112-119: generate_formula returned res
RespondOk(res) ==
    LET out == IF res.parsed /\ Truthy(res.data)
               THEN [k \in DOMAIN res \cup {"formatted_data"} |->
                        IF k = "formatted_data" THEN format_formula_for_display(res.data)
                        ELSE res[k]]
               ELSE res
    IN  [ok |-> TRUE, result |-> Some(out), error |-> Nothing]

\* the except branch of generate answering ok=True
RespondError_Ok(msg) ==
    [ok |-> TRUE, result |-> Nothing,
     error |-> Some([message |-> msg, trace |-> "Traceback (most recent call last): ..."])]

\* main.py generate, lines 120-123: generate_formula raised msg
RespondError(msg) ==
    [ok |-> FALSE, result |-> Nothing,
     error |-> Some([message |-> msg, trace |-> "Traceback (most recent call last): ..."])]

-----------------------------------------------------------------------------
(* The inputs the model is checked on *)

NumCalls == 2
Calls == 1..NumCalls

\* GenerateRequest.message values (pydantic has already made it a str)
Messages == { <<>>, <<" ", "\n">>, <<"h", "i">> }

Text_a1_T ==
    <<"{", "\"", "a", "\"", ":", " ", "1", "}", " ", "T","E","R","M","I","N","A","T","E">>
Text_plain == <<"n", "o", " ", "j", "s", "o", "n">>
Text_two == <<"[", "{", "}", ",", " ", "{", "}", "]">>
Text_empty_obj == <<"{", "}">>
Repr_object == <<"R", "(", "c", "o", "s", "t", "=", "{", "'", "c", "'", ":", " ", "1", "}", ")">>
Repr_dict == <<"{", "'", "c", "h", "a", "t", "_", "h", "i", "s", "t", "o", "r", "y", "'", ":",
               " ", "[", "]", "}">>

FinalTurns == { Text_a1_T, Text_plain, Text_two, Text_empty_obj }

ChatOutcomes ==
    {ChatRaises("agent call failed")}
        \cup {ChatObject(Some(<<Some(r)>>), Nothing, Repr_object) : r \in FinalTurns}
        \cup { ChatObject(Some(<<>>), Nothing, Repr_object),
               ChatObject(Some(<<Some(Text_a1_T), Some(<<>>)>>), Nothing, Repr_object),
               ChatObject(Some(<<Some(Text_a1_T), Nothing>>), Nothing, Repr_object),
               ChatObject(Nothing, Some(Text_a1_T), Repr_object),
               ChatDict(Nothing, Some(<<Some(Text_plain)>>), <<"{", "}">>),
               ChatDict(Some(<<>>), Nothing, Repr_dict) }

\* reply texts for the recovery
MaxPieces == 3

Pieces ==
    { <<"{">>, <<"}">>, <<"[">>, <<"]">>, <<"\"">>, <<"'">>, <<":">>, <<",">>,
      <<" ">>, <<"1">>, <<"a">>, <<"T","E","R","M","I","N","A","T","E">> }

\* every concatenation of at most n pieces
RECURSIVE PieceTexts(_)
PieceTexts(n) ==
    IF n = 0 THEN {<<>>}
    ELSE LET shorter == PieceTexts(n - 1)
         IN  shorter \cup {p \o t : p \in Pieces, t \in shorter}

Quoted(s) == <<"\"">> \o s \o <<"\"">>
Scalars == { <<"1">>, Quoted(<<"a">>), Quoted(<<"T","E","R","M","I","N","A","T","E">>) }
ObjectTexts(V) ==
    {<<"{", "}">>} \cup {<<"{">> \o Quoted(<<"a">>) \o <<":">> \o v \o <<"}">> : v \in V}
ArrayTexts(V) ==
    {<<"[", "]">>} \cup {<<"[">> \o v \o <<"]">> : v \in V}
                   \cup {<<"[">> \o v \o <<",", " ">> \o w \o <<"]">> : v \in V, w \in V}
Level1 == ObjectTexts(Scalars) \cup ArrayTexts(Scalars)
Level2 == ObjectTexts(Level1) \cup ArrayTexts(Level1)
SingleQuoted(s) == [i \in 1..Len(s) |-> IF s[i] = "\"" THEN "'" ELSE s[i]]
JsonTexts == LET T == Level1 \cup Level2 IN T \cup {SingleQuoted(t) : t \in T}
Prefixes == { <<>>, <<" ">>, <<"a", " ">> }
Suffixes == { <<>>, <<" ">>, <<" ", "T","E","R","M","I","N","A","T","E">>, <<" ", "a">> }
ReplyTexts ==
    PieceTexts(MaxPieces) \cup {p \o t \o q : p \in Prefixes, t \in JsonTexts, q \in Suffixes}

\* arguments of format_formula_for_display
MaxKeys == 3

InputKeys ==
    { <<"n","a","m","e">>, <<"N","a","m","e">>, <<"p","r","o","d","u","c","t"," ","n","a","m","e">>,
      <<"n","a","m","e","_","d","e","s","c">>, <<"d","e","s","c">>, <<"t","i","p","s">>,
      <<"x">>, <<>> }
InputValues == { <<"num", <<"1">>>>, <<"str", <<"a">>>> }

\* the dicts with at most n keys, as insertion-ordered pair lists
RECURSIVE Dicts(_)
Dicts(n) ==
    IF n = 0 THEN {<<>>}
    ELSE LET smaller == Dicts(n - 1)
         IN  smaller \cup {Append(d, <<k, v>>) :
                              d \in {x \in smaller : Len(x) = n - 1},
                              k \in InputKeys, v \in InputValues}

KeysUnique(d) == \A i, j \in DOMAIN d : d[i][1] = d[j][1] => i = j

FormatInputs ==
    {<<"obj", d>> : d \in {x \in Dicts(MaxKeys) : KeysUnique(x)}}
        \cup {None, <<"arr", <<>>>>, <<"arr", <<<<"obj", <<>>>>>>>>, <<"str", <<"a">>>>,
              <<"num", <<"0">>>>}

-----------------------------------------------------------------------------
(* The service: concurrent calls of the generate handler *)

InitCallsIdle ==
    /\ _agent = 0 /\ _user_proxy = 0 /\ agentCtor = 0 /\ proxyCtor = 0
    /\ pc = <<>> /\ req = <<>> /\ usedProxy = <<>> /\ usedAgent = <<>>
    /\ didInit = <<>> /\ didChat = <<>> /\ chat = <<>> /\ resp = <<>>
InitRecoverIdle == raw = <<>> /\ result = Nothing
InitFormatIdle == formula_data = None /\ formatted = Nothing

Init ==
    /\ _agent = 0
    /\ _user_proxy = 0
    /\ agentCtor = 0
    /\ proxyCtor = 0
    /\ pc = [c \in Calls |-> "idle"]
    /\ req = [c \in Calls |-> Nothing]
    /\ usedProxy = [c \in Calls |-> 0]
    /\ usedAgent = [c \in Calls |-> 0]
    /\ didInit = [c \in Calls |-> FALSE]
    /\ didChat = [c \in Calls |-> FALSE]
    /\ chat = [c \in Calls |-> Nothing]
    /\ resp = [c \in Calls |-> Nothing]
    /\ InitRecoverIdle /\ InitFormatIdle

\* main.py generate is entered with a request; generate_formula validates the
\* message (lines 166-167) and the handler answers a rejected one (lines 120-123)
Generate(c) ==
    /\ pc[c] = "idle"
    /\ \E message \in Messages :
          /\ req' = [req EXCEPT ![c] = Some(message)]
          /\ IF IsRejected(message)
             THEN /\ pc' = [pc EXCEPT ![c] = "done"]
                  /\ resp' = [resp EXCEPT ![c] = Some(RespondError(EmptyMessage))]
             ELSE /\ pc' = [pc EXCEPT ![c] = "init_agents"]
                  /\ resp' = resp
    /\ UNCHANGED <<_agent, _user_proxy, agentCtor, proxyCtor, usedProxy, usedAgent,
                   didInit, didChat, chat, recoverVars, formatVars>>

\* _init_agents is entered and tests the globals, lines 115-117
InitAgentsCheck(c) ==
    /\ pc[c] = "init_agents"
    /\ didInit' = [didInit EXCEPT ![c] = TRUE]
    /\ pc' = [pc EXCEPT ![c] = IF AgentsReady(_agent, _user_proxy)
                               THEN "load_proxy" ELSE "make_agent"]
    /\ UNCHANGED <<_agent, _user_proxy, agentCtor, proxyCtor, req, usedProxy, usedAgent,
                   didChat, chat, resp, recoverVars, formatVars>>

\* _agent = AssistantAgent(...), lines 138-142
MakeAgent(c) ==
    /\ pc[c] = "make_agent"
    /\ agentCtor' = agentCtor + 1
    /\ _agent' = agentCtor + 1
    /\ pc' = [pc EXCEPT ![c] = "make_proxy"]
    /\ UNCHANGED <<_user_proxy, proxyCtor, req, usedProxy, usedAgent, didInit, didChat,
                   chat, resp, recoverVars, formatVars>>

\* _user_proxy = UserProxyAgent(...), lines 144-150
MakeProxy(c) ==
    /\ pc[c] = "make_proxy"
    /\ proxyCtor' = proxyCtor + 1
    /\ _user_proxy' = proxyCtor + 1
    /\ pc' = [pc EXCEPT ![c] = "load_proxy"]
    /\ UNCHANGED <<_agent, agentCtor, req, usedProxy, usedAgent, didInit, didChat,
                   chat, resp, recoverVars, formatVars>>

\* line 173: the global _user_proxy is loaded
LoadProxy(c) ==
    /\ pc[c] = "load_proxy"
    /\ usedProxy' = [usedProxy EXCEPT ![c] = _user_proxy]
    /\ pc' = [pc EXCEPT ![c] = "load_agent"]
    /\ UNCHANGED <<_agent, _user_proxy, agentCtor, proxyCtor, req, usedAgent, didInit,
                   didChat, chat, resp, recoverVars, formatVars>>

\* line 173: the global _agent is loaded
LoadAgent(c) ==
    /\ pc[c] = "load_agent"
    /\ usedAgent' = [usedAgent EXCEPT ![c] = _agent]
    /\ pc' = [pc EXCEPT ![c] = "chat"]
    /\ UNCHANGED <<_agent, _user_proxy, agentCtor, proxyCtor, req, usedProxy, didInit,
                   didChat, chat, resp, recoverVars, formatVars>>

\* what the handler answers after the exchange, tabulated per loaded role and outcome
Answers ==
    [user_proxy \in 0..NumCalls, outcome \in ChatOutcomes |->
        RespondOk(RunExchange(user_proxy, outcome))]

\* line 173: initiate_chat runs; lines 175-216 build the dict; the handler
\* formats it and answers (main.py lines 115-119)
InitiateChat(c) ==
    /\ pc[c] = "chat"
    /\ \E outcome \in ChatOutcomes :
          /\ chat' = [chat EXCEPT ![c] = IF usedProxy[c] = 0 THEN Nothing ELSE Some(outcome)]
          /\ resp' = [resp EXCEPT ![c] = Some(Answers[usedProxy[c], outcome])]
    /\ didChat' = [didChat EXCEPT ![c] = usedProxy[c] # 0]
    /\ pc' = [pc EXCEPT ![c] = "done"]
    /\ UNCHANGED <<_agent, _user_proxy, agentCtor, proxyCtor, req, usedProxy, usedAgent,
                   didInit, recoverVars, formatVars>>

Next ==
    \E c \in Calls :
        \/ Generate(c)
        \/ InitAgentsCheck(c)
        \/ MakeAgent(c)
        \/ MakeProxy(c)
        \/ LoadProxy(c)
        \/ LoadAgent(c)
        \/ InitiateChat(c)

Spec == Init /\ [][Next]_vars

-----------------------------------------------------------------------------
(* The recovery and the formatter on their own, over all their inputs *)

InitRecover ==
    /\ raw \in ReplyTexts
    /\ result = Nothing
    /\ InitCallsIdle /\ InitFormatIdle

\* generate_formula, lines 175-216, on a chat result whose final turn holds raw
Recover ==
    /\ result = Nothing
    /\ result' = Some(RunExchange(1, ChatObject(Some(<<Some(raw)>>), Nothing, Repr_object)))
    /\ UNCHANGED <<raw, callVars, formatVars>>

NextRecover == Recover
SpecRecover == InitRecover /\ [][NextRecover]_vars

InitFormat ==
    /\ formula_data \in FormatInputs
    /\ formatted = Nothing
    /\ InitCallsIdle /\ InitRecoverIdle

\* the formatter applied to the argument
Format ==
    /\ formatted = Nothing
    /\ formatted' = Some(format_formula_for_display(formula_data))
    /\ UNCHANGED <<formula_data, callVars, recoverVars>>

NextFormat == Format
SpecFormat == InitFormat /\ [][NextFormat]_vars

-----------------------------------------------------------------------------
(* Claims about the recovery, checked under SpecRecover *)

Recovered == result # Nothing /\ raw # <<>>

\* the text after sentinel removal and trimming, and its two spans
Cleaned(text) == Strip(SubTerminate(text, 1))
HasBraces(text) ==
    LET c == Cleaned(text)
    IN  Find(c, "{") # -1 /\ RFind(c, "}") > Find(c, "{")
BraceSpan(text) ==
    LET c == Cleaned(text) IN SubSeq(c, Find(c, "{") + 1, RFind(c, "}") + 1)
HasBrackets(text) ==
    LET c == Cleaned(text)
    IN  Find(c, "[") # -1 /\ RFind(c, "]") > Find(c, "[")
BracketSpan(text) ==
    LET c == Cleaned(text) IN SubSeq(c, Find(c, "[") + 1, RFind(c, "]") + 1)
ParsesAs(text, tag) == json_loads(text).ok /\ json_loads(text).val[1] = tag

\* C1: a reply that is valid JSON text for an object or an array is recovered
\* with parsed = true and data equal to the value of parsing the whole text.
C1_ValidJsonRecovered ==
    (Recovered /\ (ParsesAs(raw, "obj") \/ ParsesAs(raw, "arr")))
        => /\ result[1].parsed
           /\ PyEq(result[1].data, json_loads(raw).val)

\* none of the three attempts of _parse_json_string succeeds on the reply
NoAttemptParses(text) ==
    LET candidate == Strip(_extract_json_like(text))
        extracted == _extract_json_like(candidate)
    IN  /\ ~json_loads(candidate).ok
        /\ ~json_loads(extracted).ok
        /\ ~json_loads(SubQuotes(extracted)).ok

\* C6: the result carries the reply text unchanged as raw, whether or not the
\* recovery succeeds; when no parse attempt succeeds it has parsed = false,
\* no data and an error text.
C6_RawKeptFailureReported ==
    Recovered =>
        /\ result[1].raw = raw
        /\ NoAttemptParses(raw) =>
              /\ result[1].parsed = FALSE
              /\ result[1].data = None
              /\ result[1].error # Nothing

\* a reply that ends in the sentinel, holds no span and parses in no attempt
C6_Witness ==
    /\ Recovered
    /\ NoAttemptParses(raw)
    /\ ~HasBraces(raw)
    /\ ~HasBrackets(raw)
    /\ Len(raw) > Len(TERMINATE)
    /\ TerminateMatchAt(raw, Len(raw) - Len(TERMINATE) + 1)
    /\ Cleaned(raw) # <<>>
    /\ result[1].raw = raw
    /\ ~result[1].parsed

\* C8 as stated: when the brace span does not parse, the bracket span is tried
\* next, so a reply whose brace span is invalid and whose bracket span is a
\* valid array is recovered as that array.
C8_ArrayTriedAfterBraces ==
    (Recovered /\ HasBraces(raw) /\ ~json_loads(BraceSpan(raw)).ok
        /\ HasBrackets(raw) /\ ParsesAs(BracketSpan(raw), "arr"))
        => /\ result[1].parsed
           /\ PyEq(result[1].data, json_loads(BracketSpan(raw)).val)

\* C8 amended: the bracket span is sliced only when the cleaned text has no
\* brace pair.  With a brace pair the brace span is the only candidate: a
\* successful recovery yields an object, and when the brace span parses neither
\* as it is nor after quote substitution the recovery fails, also when the
\* bracket span is a valid array.  Without a brace pair a bracket span that is
\* a valid array is recovered as that array.
C8_BracketsOnlyWithoutBraces ==
    Recovered =>
        /\ HasBraces(raw) =>
              /\ result[1].parsed => IsDict(result[1].data)
              /\ (~json_loads(BraceSpan(raw)).ok /\ ~json_loads(SubQuotes(BraceSpan(raw))).ok)
                    => ~result[1].parsed
        /\ (~HasBraces(raw) /\ HasBrackets(raw) /\ ParsesAs(BracketSpan(raw), "arr"))
              => /\ result[1].parsed
                 /\ PyEq(result[1].data, json_loads(BracketSpan(raw)).val)

\* a reply with an invalid brace span inside a valid array: not recovered
C8_Witness ==
    /\ Recovered
    /\ HasBraces(raw)
    /\ ~json_loads(BraceSpan(raw)).ok
    /\ HasBrackets(raw)
    /\ ParsesAs(BracketSpan(raw), "arr")
    /\ ~result[1].parsed

-----------------------------------------------------------------------------
(* Claims about the formatter, checked under SpecFormat *)

Sections == Range(expected_sections)
Formatted == formatted # Nothing /\ IsDict(formula_data)

\* some alias of the section equals the key or is contained in it, ignoring case
KeyMatches(k, section_name) ==
    \E i \in DOMAIN common_fields :
        /\ common_fields[i][1] = section_name
        /\ \E j \in DOMAIN common_fields[i][2] :
              Contains(Lower(k), Lower(common_fields[i][2][j]))

SevenSections(data, out) ==
    /\ IsDict(out)
    /\ Sections \subseteq DictKeys(out[2])
    /\ DictKeys(out[2]) \subseteq Sections \cup {AdditionalInformation}
    /\ \A s \in Sections :
          (\A k \in DictKeys(data[2]) : ~KeyMatches(k, s)) => DictGet(out[2], s) = Placeholder

\* C4 as stated: for every object input, the empty one included, the output
\* has the seven canonical sections, a section no key matches holding the
\* placeholder, and no other key than Additional Information.
C4_SevenSectionsAlways == Formatted => SevenSections(formula_data, formatted[1])

\* C4 amended: the same for every object input with at least one key (the
\* object with no keys is returned unchanged).
C4_SevenSectionsNonEmpty ==
    (Formatted /\ formula_data[2] # <<>>) => SevenSections(formula_data, formatted[1])

\* an output with a filled section, a placeholder section and the extra group
C4_Witness ==
    /\ Formatted
    /\ formula_data[2] # <<>>
    /\ HasKey(formatted[1][2], AdditionalInformation)
    /\ \E s, t \in Sections :
          /\ DictGet(formatted[1][2], s) = Placeholder
          /\ DictGet(formatted[1][2], t) # Placeholder

\* the output groups that hold key k with value v
GroupsHolding(out, k, v) ==
    {g \in DOMAIN out : HasKey(out[g][2][2], k) /\ DictGet(out[g][2][2], k) = v}

\* C9: for an object input with at least one key, every input key is placed,
\* with its value, under exactly one output group (a section or Additional
\* Information), and the groups hold nothing but input keys or the placeholder.
C9_EveryKeyInOneGroup ==
    (Formatted /\ formula_data[2] # <<>>) =>
        LET data == formula_data[2]
            out  == formatted[1][2]
        IN  /\ \A i \in DOMAIN data :
                  Cardinality(GroupsHolding(out, data[i][1], data[i][2])) = 1
            /\ \A g \in DOMAIN out :
                  \/ out[g][2] = Placeholder
                  \/ \A e \in DOMAIN out[g][2][2] : \E i \in DOMAIN data : data[i] = out[g][2][2][e]
            /\ \A i \in DOMAIN data :
                  (\A g \in DOMAIN out : out[g][1] \in Sections => ~HasKey(out[g][2][2], data[i][1]))
                      => /\ HasKey(out, AdditionalInformation)
                         /\ HasKey(DictGet(out, AdditionalInformation)[2], data[i][1])

\* three keys: two claimed by one section, one left for Additional Information
C9_Witness ==
    /\ Formatted
    /\ Len(formula_data[2]) = 3
    /\ HasKey(formatted[1][2], AdditionalInformation)
    /\ Len(DictGet(formatted[1][2], AdditionalInformation)[2]) = 1
    /\ \E s \in Sections :
          /\ DictGet(formatted[1][2], s) # Placeholder
          /\ Len(DictGet(formatted[1][2], s)[2]) = 2

-----------------------------------------------------------------------------
(* Claims about the service, checked under Spec *)

Done(c) == pc[c] = "done"
\* the message is empty or whitespace only
Blank(message) == \A i \in DOMAIN message : message[i] \in Whitespace
BlankCall(c) == req[c] # Nothing /\ Blank(req[c][1])
ChatRaised(c) == chat[c] # Nothing /\ chat[c][1].raises
ChatReturned(c) == chat[c] # Nothing /\ ~chat[c][1].raises
\* the recovery of the text taken as the reply fails
RecoveryFails ==
    [outcome \in {o \in ChatOutcomes : ~o.raises} |->
        _parse_json_string(_extract_json_like(ReadReply(outcome))).raised]
RecoveryFailed(c) == ChatReturned(c) /\ RecoveryFails[chat[c][1]]
StepFailed(c) == BlankCall(c) \/ ChatRaised(c) \/ RecoveryFailed(c)
ErrorPayload(e) ==
    e # Nothing /\ DOMAIN e[1] = {"message", "trace"} /\ e[1].message # "" /\ e[1].trace # ""

\* C2 as stated: when validation, the exchange or the recovery fails, the
\* response has ok = false and an error payload with a message and a trace.
C2_FailureAnswersNotOk ==
    \A c \in Calls :
        (Done(c) /\ StepFailed(c))
            => /\ resp[c] # Nothing
               /\ ~resp[c][1].ok
               /\ ErrorPayload(resp[c][1].error)

\* C2 amended: every finished call has a response (no exception leaves the
\* handler).  A rejected message gives ok = false, no result and an error payload
\* with a message and a trace.  A raising exchange or a failed recovery gives
\* ok = true and no error payload; the failure is inside the result: parsed =
\* false, data null and an error text.
C2_FailureAnswers ==
    \A c \in Calls :
        Done(c) =>
            /\ resp[c] # Nothing
            /\ BlankCall(c) =>
                  /\ ~resp[c][1].ok
                  /\ resp[c][1].result = Nothing
                  /\ ErrorPayload(resp[c][1].error)
            /\ (ChatRaised(c) \/ RecoveryFailed(c)) =>
                  /\ resp[c][1].ok
                  /\ resp[c][1].error = Nothing
                  /\ resp[c][1].result # Nothing
                  /\ ~resp[c][1].result[1].parsed
                  /\ resp[c][1].result[1].data = None
                  /\ resp[c][1].result[1].error # Nothing

\* one call rejected, one whose exchange raised, both answered
C2_Witness ==
    \E c, d \in Calls :
        /\ Done(c) /\ BlankCall(c) /\ ~resp[c][1].ok
        /\ Done(d) /\ ChatRaised(d) /\ resp[d][1].ok

\* C3: a call with an empty or whitespace-only message never enters
\* _init_agents and never invokes initiate_chat, and it ends in a failure.
C3_BlankRejectedBeforeAgents ==
    \A c \in Calls :
        BlankCall(c) =>
            /\ ~didInit[c]
            /\ ~didChat[c]
            /\ usedProxy[c] = 0 /\ usedAgent[c] = 0
            /\ Done(c)
            /\ resp[c] # Nothing /\ ~resp[c][1].ok

\* a whitespace-only call rejected while no agent exists, another call chatting
C3_Witness ==
    \E c, d \in Calls :
        /\ BlankCall(c) /\ req[c][1] # <<>> /\ Done(c)
        /\ didChat[d]
        /\ agentCtor = 1

\* C5: each role is constructed exactly once, and every call runs its
\* exchange on that same pair.
C5_OnePairForAllCalls ==
    /\ agentCtor <= 1
    /\ proxyCtor <= 1
    /\ \A c, d \in Calls :
          (didChat[c] /\ didChat[d])
              => usedAgent[c] = usedAgent[d] /\ usedProxy[c] = usedProxy[d]

\* no reply content can be located in the chat result
NoContent(cr) ==
    LET hist == IF cr.isdict /\ ~NonEmptyList(cr.chat_history) THEN cr.history
                ELSE cr.chat_history
    IN  /\ \/ ~NonEmptyList(hist)
           \/ LastContent(hist) = Nothing
           \/ LastContent(hist)[1] = <<>>
        /\ cr.content = Nothing \/ cr.content[1] = <<>>

\* C7: the run fails with an integration error when the agent call raises and
\* when no reply content can be located; in the latter case no substitute text
\* is handed to the recovery as the reply.
C7_NoContentIsAnError ==
    \A c \in Calls :
        (Done(c) /\ (ChatRaised(c) \/ (ChatReturned(c) /\ NoContent(chat[c][1]))))
            => /\ resp[c][1].result # Nothing
               /\ ~resp[c][1].result[1].parsed
               /\ resp[c][1].result[1].error # Nothing
               /\ resp[c][1].result[1].raw = <<>>

\* C10: when a call is about to load the roles and invoke the exchange both
\* globals are set, the roles it loaded are set, and a role that was
\* constructed is never null again.
C10_RolesSetAtExchange ==
    /\ \A c \in Calls :
          /\ pc[c] \in {"load_proxy", "load_agent", "chat"} => (_agent # 0 /\ _user_proxy # 0)
          /\ pc[c] \in {"load_agent", "chat"} => usedProxy[c] # 0
          /\ pc[c] = "chat" => usedAgent[c] # 0
          /\ didChat[c] => (usedProxy[c] # 0 /\ usedAgent[c] # 0)
    /\ agentCtor > 0 => _agent # 0
    /\ proxyCtor > 0 => _user_proxy # 0

\* one call invokes the exchange while another is half way through building
\* a second pair
C10_Witness ==
    \E c, d \in Calls :
        /\ pc[c] = "chat"
        /\ pc[d] = "make_proxy"
        /\ agentCtor = 2 /\ proxyCtor = 1

====
